---- MODULE Spec2Model ----
(***************************************************************************)
(* A model of tiny_stl::basic_string (TinySTL/string.h): the small-buffer  *)
(* storage record StringValue, the growth engine (checkLength,             *)
(* capacityGrowth, reallocAndAssign), the constructors and init            *)
(* primitives, reserve / shrink_to_fit / tidy, and the two string cursors. *)
(*                                                                         *)
(* size_type is modelled as an unsigned integer of WordBits bits and the   *)
(* character type as a CharSize-byte integer; every quantity of the header *)
(* (kBufferSize, kBufferMask, npos, max_size) is computed from these two   *)
(* exactly as the header computes it.                                      *)
(***************************************************************************)
EXTENDS Integers, Sequences, FiniteSets, TLC

\* ---------------------------------------------------------------- bounds
WordBits == 6          \* width of size_type in bits
MaxChar == 2           \* characters are 0..MaxChar, 0 is value_type()
MaxLen == 5            \* longest source buffer handed to a constructor
MaxBlocks == 2         \* blocks the allocator can hand out before failing
MaxOps == 1            \* member calls made on one live object
MaxPos == 8            \* highest buffer position of a cursor

\* sizeof(value_type) of the instantiation checked: u32string
CharSize == 4

\* ---------------------------------------------------------------- integers
RECURSIVE Pow2(_)
Pow2(n) == IF n = 0 THEN 1 ELSE 2 * Pow2(n - 1)

RECURSIVE BitOr(_, _)
BitOr(a, b) ==
    IF a = 0 THEN b
    ELSE IF b = 0 THEN a
    ELSE 2 * BitOr(a \div 2, b \div 2)
         + (IF a % 2 = 1 \/ b % 2 = 1 THEN 1 ELSE 0)

Modulus == Pow2(WordBits)
SizeMax == Modulus - 1                 \* static_cast<size_type>(-1)
PtrdiffMax == Pow2(WordBits - 1) - 1   \* numeric_limits<difference_type>::max()
npos == SizeMax

Min(a, b) == IF b < a THEN b ELSE a
Max(a, b) == IF a < b THEN b ELSE a

kBufferSize == 16 \div CharSize
kBufferMask ==
    IF CharSize <= 1 THEN 15
    ELSE IF CharSize <= 2 THEN 7
    ELSE IF CharSize <= 4 THEN 3
    ELSE IF CharSize <= 8 THEN 1 ELSE 0

max_size == Min(SizeMax \div CharSize - 1, PtrdiffMax)

\* ---------------------------------------------------------------- values
CharT == 0 .. MaxChar
Sentinel == 0                          \* value_type()
Uninit == -1                           \* a heap slot no writer has written
Inline == 0                            \* the address of data.buf
Wild == -1                             \* data.ptr read while buf is active
BlockIds == 1 .. MaxBlocks

\* the source buffers handed to the constructors: every prefix of the cyclic
\* patterns k+1, k+2, ..., so that a copy taken from the wrong offset shows
Pattern(k, n) == [i \in 1 .. n |-> ((i - 1 + k) % MaxChar) + 1]

Sources == {Pattern(k, n) : k \in 0 .. MaxChar - 1, n \in 0 .. MaxLen}

\* the counts handed to the fill operations and to reserve: around the inline
\* capacity, around the first heap capacities, around max_size(), and npos
Counts ==
    {0, 1, kBufferSize - 1, kBufferSize, kBufferSize + 1, 2 * kBufferSize,
     max_size - 2, max_size - 1, max_size, max_size + 1, npos}

\* what data.buf shows once data.ptr has been stored over it
GarbageBufs == {[i \in 1 .. kBufferSize |-> g] : g \in {Sentinel, 1}}

VARIABLES
    pc,            \* "raw", "alive", "failed", "destroyed"
    size, capacity, data,
    heap, allocCalls, deallocCalls, ub,
    err, trace, op, nops,
    cgOldSize, cgNewSize, cgResult, cgDone,
    itKind, itPtr, itPrev, itRet, itOp

strVars == <<pc, size, capacity, data, heap, allocCalls, deallocCalls, ub,
             err, trace, op, nops>>
cgVars == <<cgOldSize, cgNewSize, cgResult, cgDone>>
itVars == <<itKind, itPtr, itPrev, itRet, itOp>>
vars == <<strVars, cgVars, itVars>>

\* ---------------------------------------------------------------- allocator
\* allocator<CharT> seen through its two calls; a block id is never reused,
\* so a pointer to a freed block stays recognisable.
FreeBlock == [state |-> "free", slots |-> 0, mem |-> <<>>, freedWith |-> 0]

HasFreshBlock(st) == \E b \in BlockIds : st.heap[b].state = "free"

FreshBlock(st) ==
    CHOOSE b \in BlockIds :
        /\ st.heap[b].state = "free"
        /\ \A c \in BlockIds : st.heap[c].state = "free" => b <= c

\* alloc.allocate(n), the successful case: n uninitialised slots
allocate(st, n) ==
    LET b == FreshBlock(st)
    IN [st EXCEPT
           !.heap[b] = [state |-> "live", slots |-> n,
                        mem |-> [i \in 1 .. n |-> Uninit], freedWith |-> 0],
           !.allocCalls = @ + 1,
           !.trace = Append(@, <<"allocate", b, n>>)]

\* alloc.allocate(n) throwing
allocateFails(st) ==
    [st EXCEPT !.allocCalls = @ + 1,
               !.trace = Append(@, <<"allocate_failed", 0, 0>>),
               !.err = "bad_alloc"]

\* alloc.deallocate(p, n); freeing anything but a live block is undefined
deallocate(st, p, n) ==
    LET logged == [st EXCEPT !.deallocCalls = @ + 1,
                             !.trace = Append(@, <<"deallocate", p, n>>)]
    IN IF p \in BlockIds /\ st.heap[p].state = "live"
       THEN [logged EXCEPT !.heap[p] = [state |-> "freed", slots |-> @.slots,
                                        mem |-> <<>>, freedWith |-> n]]
       ELSE [logged EXCEPT !.ub = TRUE]

\* ---------------------------------------------------------------- StringValue
\* union Data: buf and ptr share their bytes; `active` is the member written
\* last, and reading the other one yields garbage (Wild, or a GarbageBufs).
DataDefault ==
    [buf |-> [i \in 1 .. kBufferSize |-> Sentinel], ptr |-> Wild, active |-> "buf"]

StringValue ==
    [size |-> 0, capacity |-> 0, data |-> DataDefault]

isShortString(st) == st.capacity < kBufferSize

getPtr(st) == IF isShortString(st) THEN Inline ELSE st.data.ptr

\* Traits::assign / Traits::move of cells[1..] to p[0..]
WriteCells(st, p, cells) ==
    IF p = Inline /\ Len(cells) <= kBufferSize
    THEN [st EXCEPT !.data =
             [buf |-> [i \in 1 .. kBufferSize |->
                          IF i <= Len(cells) THEN cells[i] ELSE st.data.buf[i]],
              ptr |-> Wild, active |-> "buf"]]
    ELSE IF p \in BlockIds /\ st.heap[p].state = "live"
            /\ Len(cells) <= st.heap[p].slots
    THEN [st EXCEPT !.heap[p].mem =
             [i \in 1 .. st.heap[p].slots |->
                 IF i <= Len(cells) THEN cells[i] ELSE st.heap[p].mem[i]]]
    ELSE [st EXCEPT !.ub = TRUE]

\* data.ptr = p: the pointer's bytes replace buf's
StorePtr(st, p, garbage) ==
    [st EXCEPT !.data = [buf |-> garbage, ptr |-> p, active |-> "ptr"],
               !.trace = Append(@, <<"store", p, 0>>)]

\* the buffer a reader reaches through getPtr()
Buffer(st) ==
    LET p == getPtr(st)
    IN IF p = Inline THEN st.data.buf
       ELSE IF p \in BlockIds /\ st.heap[p].state = "live" THEN st.heap[p].mem
       ELSE <<>>

initEmpty(st) ==
    WriteCells([st EXCEPT !.size = 0, !.capacity = kBufferSize - 1],
               Inline, <<Sentinel>>)

\* the writers handed to reallocAndAssign, as the cells they write
FillCells(count, ch) ==
    [i \in 1 .. count + 1 |-> IF i <= count THEN ch ELSE Sentinel]

CopyCells(str, count) ==
    [i \in 1 .. count + 1 |-> IF i <= count THEN str[i] ELSE Sentinel]

\* ---------------------------------------------------------------- growth engine
checkLength(newSize) == newSize < max_size     \* FALSE: xLength() throws

\* capacityGrowth without the guard against oldSize + oldSize / 2 overflowing
capacityGrowth_noOverflowGuard(oldSize, newSize) ==
    LET masked == BitOr(newSize, kBufferMask)
        maxSize == max_size
    IN IF masked > maxSize THEN maxSize
       ELSE Max(masked, (oldSize + oldSize \div 2) % Modulus)

capacityGrowth(oldSize, newSize) ==
    LET masked == BitOr(newSize, kBufferMask)
        maxSize == max_size
    IN IF masked > maxSize THEN maxSize
       ELSE IF oldSize > (maxSize - oldSize \div 2) % Modulus THEN maxSize
       ELSE Max(masked, (oldSize + oldSize \div 2) % Modulus)

\* reallocAndAssign storing size and capacity before it allocates
reallocAndAssign_sizeFirst(st, newSize, cells, allocOk, garbage) ==
    IF ~checkLength(newSize) THEN [st EXCEPT !.err = "length_error"]
    ELSE
    LET oldCapacity == st.capacity
        newCapacity == capacityGrowth(st.size, newSize)
        s0 == [st EXCEPT !.size = newSize, !.capacity = newCapacity]
    IN IF ~(allocOk /\ HasFreshBlock(st)) THEN allocateFails(s0)
       ELSE
       LET newPtr == FreshBlock(st)
           s1 == allocate(s0, newCapacity + 1)
           s3 == [WriteCells(s1, newPtr, cells)
                     EXCEPT !.trace = Append(@, <<"populate", newPtr, Len(cells)>>)]
           s4 == IF oldCapacity >= kBufferSize
                 THEN deallocate(s3, s3.data.ptr, oldCapacity + 1)
                 ELSE s3
       IN StorePtr(s4, newPtr, garbage)

\* reallocAndAssign freeing the previous block before the new one is written
reallocAndAssign_freeFirst(st, newSize, cells, allocOk, garbage) ==
    IF ~checkLength(newSize) THEN [st EXCEPT !.err = "length_error"]
    ELSE
    LET oldCapacity == st.capacity
        newCapacity == capacityGrowth(st.size, newSize)
    IN IF ~(allocOk /\ HasFreshBlock(st)) THEN allocateFails(st)
       ELSE
       LET newPtr == FreshBlock(st)
           s1 == allocate(st, newCapacity + 1)
           s2 == [s1 EXCEPT !.size = newSize, !.capacity = newCapacity]
           s3 == IF oldCapacity >= kBufferSize
                 THEN deallocate(s2, s2.data.ptr, oldCapacity + 1)
                 ELSE s2
           s4 == [WriteCells(s3, newPtr, cells)
                     EXCEPT !.trace = Append(@, <<"populate", newPtr, Len(cells)>>)]
       IN StorePtr(s4, newPtr, garbage)

reallocAndAssign(st, newSize, cells, allocOk, garbage) ==
    IF ~checkLength(newSize) THEN [st EXCEPT !.err = "length_error"]
    ELSE
    LET oldCapacity == st.capacity
        newCapacity == capacityGrowth(st.size, newSize)
    IN IF ~(allocOk /\ HasFreshBlock(st)) THEN allocateFails(st)
       ELSE
       LET newPtr == FreshBlock(st)
           s1 == allocate(st, newCapacity + 1)
           s2 == [s1 EXCEPT !.size = newSize, !.capacity = newCapacity]
           s3 == [WriteCells(s2, newPtr, cells)
                     EXCEPT !.trace = Append(@, <<"populate", newPtr, Len(cells)>>)]
           s4 == IF oldCapacity >= kBufferSize
                 THEN deallocate(s3, s3.data.ptr, oldCapacity + 1)
                 ELSE s3
       IN StorePtr(s4, newPtr, garbage)

\* ---------------------------------------------------------------- init
\* every call starts with no error and an empty event log
Begin(st) == [st EXCEPT !.err = "ok", !.trace = <<>>]

\* init(size_type count, value_type ch)
initFill(st0, count, ch, allocOk, garbage) ==
    LET st == Begin(st0)
    IN IF count <= st.capacity
       THEN WriteCells([st EXCEPT !.size = count], getPtr(st), FillCells(count, ch))
       ELSE reallocAndAssign(st, count, FillCells(count, ch), allocOk, garbage)

\* init(const value_type* str, size_type count)
initCopy(st0, str, count, allocOk, garbage) ==
    LET st == Begin(st0)
    IN IF count <= st.capacity
       THEN WriteCells([st EXCEPT !.size = count], getPtr(st), CopyCells(str, count))
       ELSE reallocAndAssign(st, count, CopyCells(str, count), allocOk, garbage)

\* StringValue::checkIndex of a string of the given size
checkIndex(rhsSize, idx) == ~(idx > rhsSize)       \* FALSE: xRange() throws

\* init(const basic_string& rhs, size_type pos, size_type count); rhs is a
\* well-formed string holding the characters rhs[1..Len(rhs)]
initSubstr(st0, rhs, pos, count, allocOk, garbage) ==
    IF ~checkIndex(Len(rhs), pos)
    THEN [Begin(st0) EXCEPT !.err = "out_of_range"]
    ELSE LET clamped == Min(count, (Len(rhs) - pos) % Modulus)
         IN initCopy(st0, rhs, clamped, allocOk, garbage)

\* tidy()
tidy(st0) ==
    LET st == Begin(st0)
    IN initEmpty(IF ~isShortString(st)
                 THEN deallocate(st, getPtr(st), st.capacity + 1)
                 ELSE st)

\* reserve(size_type newCapacity): all three branches leave the object alone
shrink_to_fit(st) == Begin(st)

reserve(st, newCapacity) ==
    IF newCapacity < st.size THEN shrink_to_fit(st)
    ELSE IF newCapacity <= st.capacity THEN Begin(st)
    ELSE Begin(st)

\* ---------------------------------------------------------------- the object
Cur ==
    [size |-> size, capacity |-> capacity, data |-> data, heap |-> heap,
     allocCalls |-> allocCalls, deallocCalls |-> deallocCalls, ub |-> ub,
     err |-> err, trace |-> trace]

Install(st) ==
    /\ size' = st.size
    /\ capacity' = st.capacity
    /\ data' = st.data
    /\ heap' = st.heap
    /\ allocCalls' = st.allocCalls
    /\ deallocCalls' = st.deallocCalls
    /\ ub' = st.ub
    /\ err' = st.err
    /\ trace' = st.trace

Op(name, count, ch, pos, src) ==
    [name |-> name, count |-> count, ch |-> ch, pos |-> pos, src |-> src]

\* a constructor that throws leaves no object behind
Constructed(st, o) ==
    /\ Install(st)
    /\ pc' = IF st.err = "ok" THEN "alive" ELSE "failed"
    /\ op' = o
    /\ nops' = 0
    /\ UNCHANGED <<cgVars, itVars>>

Called(st, o) ==
    /\ Install(st)
    /\ pc' = "alive"
    /\ op' = o
    /\ nops' = nops + 1
    /\ UNCHANGED <<cgVars, itVars>>

\* the state once the member initialiser allocVal(a) has run
Init ==
    /\ pc = "raw"
    /\ size = StringValue.size
    /\ capacity = StringValue.capacity
    /\ data = StringValue.data
    /\ heap = [b \in BlockIds |-> FreeBlock]
    /\ allocCalls = 0
    /\ deallocCalls = 0
    /\ ub = FALSE
    /\ err = "ok"
    /\ trace = <<>>
    /\ op = Op("none", 0, 0, 0, <<>>)
    /\ nops = 0
    /\ cgOldSize = 0 /\ cgNewSize = 0 /\ cgResult = 0 /\ cgDone = FALSE
    /\ itKind = "const" /\ itPtr = 0 /\ itPrev = 0 /\ itRet = 0 /\ itOp = "none"

\* explicit basic_string(const Alloc&) and basic_string()
CtorDefault ==
    /\ pc = "raw"
    /\ Constructed(initEmpty(Begin(Cur)), Op("ctor_default", 0, 0, 0, <<>>))

\* basic_string(size_type count, value_type ch, const Alloc&)
CtorFill ==
    /\ pc = "raw"
    /\ \E count \in Counts, ch \in CharT, allocOk \in BOOLEAN, g \in GarbageBufs :
          Constructed(initFill(Cur, count, ch, allocOk, g),
                      Op("ctor_fill", count, ch, 0, <<>>))

\* basic_string(const basic_string& rhs, size_type pos, size_type count, ...)
\* and its (rhs, pos) overload, which passes npos
CtorSubstr ==
    /\ pc = "raw"
    /\ \E rhs \in Sources, pos \in 0 .. MaxLen + 1,
          count \in (0 .. MaxLen + 1) \cup {npos},
          allocOk \in BOOLEAN, g \in GarbageBufs :
          Constructed(initSubstr(initEmpty(Cur), rhs, pos, count, allocOk, g),
                      Op("ctor_substr", count, 0, pos, rhs))

\* basic_string(const value_type* str, size_type count, const Alloc&)
CtorPtr ==
    /\ pc = "raw"
    /\ \E str \in Sources, allocOk \in BOOLEAN, g \in GarbageBufs :
          \E count \in 0 .. Len(str) :
             Constructed(initCopy(initEmpty(Cur), str, count, allocOk, g),
                         Op("ctor_ptr", count, 0, 0, str))

\* basic_string(const value_type* str, const Alloc&): init(str, Traits::length(str))
CtorCStr ==
    /\ pc = "raw"
    /\ \E str \in Sources, allocOk \in BOOLEAN, g \in GarbageBufs :
          Constructed(initCopy(initEmpty(Cur), str, Len(str), allocOk, g),
                      Op("ctor_cstr", Len(str), 0, 0, str))

\* basic_string(InIter first, InIter last, ...) over a pointer range
CtorRange ==
    /\ pc = "raw"
    /\ \E str \in Sources, allocOk \in BOOLEAN, g \in GarbageBufs :
          Constructed(IF Len(str) = 0 THEN initEmpty(Begin(Cur))
                      ELSE initCopy(initEmpty(Cur), str, Len(str), allocOk, g),
                      Op("ctor_range", Len(str), 0, 0, str))

\* init(count, ch) on a live object
InitFill ==
    /\ pc = "alive" /\ nops < MaxOps
    /\ \E count \in Counts, ch \in CharT, allocOk \in BOOLEAN, g \in GarbageBufs :
          Called(initFill(Cur, count, ch, allocOk, g),
                 Op("init_fill", count, ch, 0, <<>>))

\* init(str, count) on a live object
InitCopy ==
    /\ pc = "alive" /\ nops < MaxOps
    /\ \E str \in Sources, allocOk \in BOOLEAN, g \in GarbageBufs :
          Called(initCopy(Cur, str, Len(str), allocOk, g),
                 Op("init_copy", Len(str), 0, 0, str))

Reserve ==
    /\ pc = "alive" /\ nops < MaxOps
    /\ \E n \in Counts :
          Called(reserve(Cur, n), Op("reserve", n, 0, 0, <<>>))

ShrinkToFit ==
    /\ pc = "alive" /\ nops < MaxOps
    /\ Called(shrink_to_fit(Cur), Op("shrink_to_fit", 0, 0, 0, <<>>))

\* ~basic_string()
Dtor ==
    /\ pc = "alive"
    /\ Install(tidy(Cur))
    /\ pc' = "destroyed"
    /\ op' = Op("dtor", 0, 0, 0, <<>>)
    /\ nops' = nops
    /\ UNCHANGED <<cgVars, itVars>>

Next ==
    \/ CtorDefault
    \/ CtorFill
    \/ CtorSubstr
    \/ CtorPtr
    \/ CtorCStr
    \/ CtorRange
    \/ InitFill
    \/ InitCopy
    \/ Reserve
    \/ ShrinkToFit
    \/ Dtor

Spec == Init /\ [][Next]_vars

\* ---------------------------------------------------------------- capacityGrowth alone
InitGrowth ==
    /\ pc = "raw"
    /\ size = StringValue.size
    /\ capacity = StringValue.capacity
    /\ data = StringValue.data
    /\ heap = [b \in BlockIds |-> FreeBlock]
    /\ allocCalls = 0
    /\ deallocCalls = 0
    /\ ub = FALSE
    /\ err = "ok"
    /\ trace = <<>>
    /\ op = Op("none", 0, 0, 0, <<>>)
    /\ nops = 0
    /\ cgOldSize \in 0 .. max_size
    /\ cgNewSize \in 0 .. max_size - 1
    /\ cgResult = 0
    /\ cgDone = FALSE
    /\ itKind = "const" /\ itPtr = 0 /\ itPrev = 0 /\ itRet = 0 /\ itOp = "none"

CapacityGrowthCall ==
    /\ ~cgDone
    /\ cgResult' = capacityGrowth(cgOldSize, cgNewSize)
    /\ cgDone' = TRUE
    /\ UNCHANGED <<cgOldSize, cgNewSize, strVars, itVars>>

NextGrowth == CapacityGrowthCall

SpecGrowth == InitGrowth /\ [][NextGrowth]_vars

\* ---------------------------------------------------------------- cursors
\* StringConstIterator<T>: the wrapped pointer as a buffer position
ConstPreInc(p) == p + 1
ConstPreDec(p) == p + 1
ConstPlusEq(p, n) == p + n
ConstMinusEq(p, n) == p - n

\* StringIterator<T> forwards to its base
IterPreInc(p) == ConstPreInc(p)
IterPreDec(p) == ConstPreDec(p)
IterPlusEq(p, n) == ConstPlusEq(p, n)
IterMinusEq(p, n) == ConstMinusEq(p, n)

PreInc(p) == IF itKind = "const" THEN ConstPreInc(p) ELSE IterPreInc(p)
PreDec(p) == IF itKind = "const" THEN ConstPreDec(p) ELSE IterPreDec(p)
PlusEq(p, n) == IF itKind = "const" THEN ConstPlusEq(p, n) ELSE IterPlusEq(p, n)
MinusEq(p, n) == IF itKind = "const" THEN ConstMinusEq(p, n) ELSE IterMinusEq(p, n)

InitIter ==
    /\ pc = "raw"
    /\ size = StringValue.size
    /\ capacity = StringValue.capacity
    /\ data = StringValue.data
    /\ heap = [b \in BlockIds |-> FreeBlock]
    /\ allocCalls = 0
    /\ deallocCalls = 0
    /\ ub = FALSE
    /\ err = "ok"
    /\ trace = <<>>
    /\ op = Op("none", 0, 0, 0, <<>>)
    /\ nops = 0
    /\ cgOldSize = 0 /\ cgNewSize = 0 /\ cgResult = 0 /\ cgDone = FALSE
    /\ itKind \in {"const", "mut"}
    /\ itPtr \in 0 .. MaxPos
    /\ itPrev = itPtr
    /\ itRet = itPtr
    /\ itOp = "none"

\* the cursor moves to `to` and the call returns a cursor at `ret`
Moved(name, to, ret) ==
    /\ to \in 0 .. MaxPos
    /\ itPtr' = to
    /\ itPrev' = itPtr
    /\ itRet' = ret
    /\ itOp' = name
    /\ UNCHANGED <<itKind, strVars, cgVars>>

ItPreInc == Moved("++it", PreInc(itPtr), PreInc(itPtr))
ItPostInc == Moved("it++", PreInc(itPtr), itPtr)
ItPreDec == Moved("--it", PreDec(itPtr), PreDec(itPtr))
ItPostDec == Moved("it--", PreDec(itPtr), itPtr)
ItPlusEq == \E n \in 0 .. MaxPos : Moved("it+=n", PlusEq(itPtr, n), PlusEq(itPtr, n))
ItMinusEq == \E n \in 0 .. MaxPos : Moved("it-=n", MinusEq(itPtr, n), MinusEq(itPtr, n))

NextIter ==
    \/ ItPreInc
    \/ ItPostInc
    \/ ItPreDec
    \/ ItPostDec
    \/ ItPlusEq
    \/ ItMinusEq

SpecIter == InitIter /\ [][NextIter]_vars

\* ---------------------------------------------------------------- properties
CtorNames == {"ctor_default", "ctor_fill", "ctor_substr", "ctor_ptr",
              "ctor_cstr", "ctor_range"}

\* the object as its constructor left it
JustConstructed == pc = "alive" /\ nops = 0 /\ op.name \in CtorNames

\* the number of characters the constructor call asked for
ConstructedCount ==
    IF op.name = "ctor_substr"
    THEN Min(op.count, Len(op.src) - op.pos)
    ELSE op.count

\* C1: a string constructed with fewer than kBufferSize characters, by any
\* constructor, has made no call of the allocator's allocate.
C1_NoAllocBelowInline ==
    (JustConstructed /\ ConstructedCount < kBufferSize) => allocCalls = 0

\* C2: substring construction from (src, pos, count) with pos <= src.size()
\* yields size n = min(count, src.size() - pos) and character i equal to
\* src[pos + i] for every i < n; with pos > src.size() it signals out of range
\* and copies nothing.
C2_SubstringContent ==
    (op.name = "ctor_substr" /\ pc \in {"alive", "failed"} /\ err # "bad_alloc") =>
        IF op.pos <= Len(op.src)
        THEN LET n == Min(op.count, Len(op.src) - op.pos)
             IN /\ err = "ok"
                /\ size = n
                /\ Len(Buffer(Cur)) >= n
                /\ \A i \in 0 .. n - 1 : Buffer(Cur)[i + 1] = op.src[op.pos + i + 1]
        ELSE /\ err = "out_of_range"
             /\ size = 0
             /\ allocCalls = 0

\* C3: reserve(n) with n > capacity() leaves capacity() >= n and keeps size()
\* and the characters [0, size()).
C3_ReserveGrows ==
    [][(op'.name = "reserve" /\ op'.count > capacity /\ op'.count < max_size) =>
          /\ capacity' >= op'.count
          /\ size' = size
          /\ \A i \in 1 .. size : Buffer(Cur)'[i] = Buffer(Cur)[i]]_vars

\* C4: once a constructor or a mutating call has completed, size() <= capacity()
\* and the character at index size() of the buffer getPtr() returns is the
\* sentinel value_type().
C4_SizeCapacitySentinel ==
    pc \in {"alive", "destroyed"} =>
        /\ size <= capacity
        /\ Len(Buffer(Cur)) > size
        /\ Buffer(Cur)[size + 1] = Sentinel

\* C5: once a constructor or an operation has returned, capacity < kBufferSize
\* exactly when the inline array is the member that holds the content, and
\* capacity >= kBufferSize exactly when a live heap block referenced by the
\* stored pointer holds it.
C5_RepresentationAgrees ==
    pc \in {"alive", "destroyed"} =>
        /\ (capacity < kBufferSize) <=> (data.active = "buf")
        /\ (capacity >= kBufferSize) <=>
              /\ data.active = "ptr"
              /\ data.ptr \in BlockIds
              /\ heap[data.ptr].state = "live"

\* C6: after destruction every block obtained from allocate has been passed to
\* deallocate exactly once, with the slot count it was allocated with, so that
\* the blocks handed out and the deallocate calls are equal in number.
C6_AllocDeallocBalanced ==
    pc = "destroyed" =>
        /\ ~ub
        /\ \A b \in BlockIds :
              /\ heap[b].state # "live"
              /\ heap[b].state = "freed" => heap[b].freedWith = heap[b].slots
        /\ Cardinality({b \in BlockIds : heap[b].state # "free"}) = deallocCalls

\* the object as the init call of the step found it: the constructors other
\* than the fill constructor run initEmpty() first
AtEntry ==
    IF pc = "raw" /\ op'.name # "ctor_fill" THEN initEmpty(Cur) ELSE Cur

\* the step is a call of init(count, ch) asking for more than the capacity
GrowthRequested ==
    /\ op'.name \in {"ctor_fill", "init_fill"}
    /\ op'.count > capacity

\* C7: a growth request that fails leaves size, capacity, the active buffer and
\* its content as they were and deallocates nothing; a requested size
\* >= max_size() fails with a length error before allocate is called, and a
\* failing allocate is reported as it is.
C7_FailedGrowthLeavesObject ==
    [][/\ (GrowthRequested /\ op'.count >= max_size) => err' = "length_error"
       /\ err' \in {"length_error", "bad_alloc"} =>
             /\ size' = AtEntry.size
             /\ capacity' = AtEntry.capacity
             /\ data' = AtEntry.data
             /\ heap' = heap
             /\ deallocCalls' = deallocCalls
             /\ err' = "length_error" => (allocCalls' = allocCalls /\ trace' = <<>>)
             /\ err' = "bad_alloc" => trace' = <<<<"allocate_failed", 0, 0>>>>]_vars

\* a heap string whose growth was refused by the allocator
C7_Witness ==
    /\ pc = "alive"
    /\ op.name = "init_fill"
    /\ err = "bad_alloc"
    /\ capacity >= kBufferSize
    /\ op.count > capacity

\* the last call went through reallocAndAssign and obtained a block
Reallocated == \E i \in 1 .. Len(trace) : trace[i][1] = "allocate"

\* C8: reallocAndAssign allocates the new block, populates it with the content
\* and the sentinel, only then frees the previous block, which it does exactly
\* when the previous capacity was >= kBufferSize and with old capacity + 1
\* slots, and last stores the new pointer, which refers to the live new block.
C8_ReallocOrder ==
    [][Reallocated' =>
          LET wasHeap == capacity >= kBufferSize
              b == trace'[1][2]
          IN /\ Len(trace') = IF wasHeap THEN 4 ELSE 3
             /\ trace'[1] = <<"allocate", b, capacity' + 1>>
             /\ trace'[2] = <<"populate", b, size' + 1>>
             /\ wasHeap => trace'[3] = <<"deallocate", data.ptr, capacity + 1>>
             /\ trace'[Len(trace')] = <<"store", b, 0>>
             /\ ~ub'
             /\ data'.ptr = b
             /\ heap'[b].state = "live"
             /\ heap'[b].slots = capacity' + 1
             /\ heap'[b].mem[size' + 1] = Sentinel
             /\ \A i \in 1 .. size' : heap'[b].mem[i] \in CharT
             /\ wasHeap => heap'[data.ptr].state = "freed"]_vars

\* a heap string that was reallocated into a new heap block
C8_Witness ==
    /\ Reallocated
    /\ Len(trace) = 4
    /\ trace[3][1] = "deallocate"
    /\ heap[trace[3][2]].state = "freed"

\* the parts of C9 that do not mention 1.5 * currentSize
GrowthBoundsCommon ==
    LET s == cgOldSize
        r == cgNewSize
        c == cgResult
        masked == BitOr(r, kBufferMask)
        saturates == masked > max_size \/ s > max_size - s \div 2
    IN /\ c >= r
       /\ c <= max_size
       /\ masked <= max_size => c >= masked
       /\ saturates => c = max_size
       /\ ~saturates => s + s \div 2 <= SizeMax

\* C9 as stated: for s <= max_size() and r < max_size(), c = capacityGrowth(r)
\* is >= r, <= max_size(), >= (r | kBufferMask) when that is <= max_size(),
\* >= 1.5 * s when s <= max_size() - s/2, and max_size() in the saturating
\* cases, where s + s/2 is not computed.
C9_GrowthBounds_Stated ==
    cgDone =>
        /\ GrowthBoundsCommon
        /\ cgOldSize <= max_size - cgOldSize \div 2 => 2 * cgResult >= 3 * cgOldSize

\* C9 as amended: the same, with c >= s + s/2 in integer division (1.5 * s
\* rounded down) in place of c >= 1.5 * s.
C9_GrowthBounds ==
    cgDone =>
        /\ GrowthBoundsCommon
        /\ cgOldSize <= max_size - cgOldSize \div 2 =>
              cgResult >= cgOldSize + cgOldSize \div 2

\* the overflow guard alone forces saturation
C9_Witness ==
    /\ cgDone
    /\ BitOr(cgNewSize, kBufferMask) <= max_size
    /\ cgOldSize > max_size - cgOldSize \div 2
    /\ cgResult = max_size

\* C10: for both cursor kinds a decrement, prefix or postfix, moves the cursor
\* from position p to p - 1, undoing an increment.
C10_DecrementInverse ==
    itOp \in {"--it", "it--"} => itPtr = itPrev - 1

====
